---- MODULE Spec2Model ----
(***************************************************************************)
(* State-machine model of the TGO-Earth occultation tool chain:            *)
(*   - OPSWeb_requester.py        (pass / occultation coverage matching)   *)
(*   - Occ_times_spice_parallel.py (parallel impact-parameter scan)        *)
(*   - covered_occultations.py    (nearest-time alignment and statistics)  *)
(* Times are integers in seconds.  Each script is one specification.       *)
(***************************************************************************)
EXTENDS Integers, Sequences, FiniteSets, TLC

VARIABLES
    \* ---- OPSWeb_requester.py ----
    pc_req,        \* position of the script
    passes,        \* raw response of the 'passes' request
    df_passes,     \* filtered, OWLT-corrected pass table
    occultations,  \* raw response of the 'occultations' request
    df_occ,        \* sorted occultation table
    row,           \* number of df_occ rows the coverage loop has handled
    covered,       \* list of covered occultations
    err_req,       \* exception that ended the script ("" when none)
    \* ---- Occ_times_spice_parallel.py ----
    pc_scan,       \* position of the main process
    start_method,  \* multiprocessing start method of the platform
    ephem,         \* per epoch: the impact parameter SPICE gives, or that it raises
    queue,         \* chunks submitted to the pool and not yet taken
    wst,           \* per worker process: "none", "started", "imported", "ready", "busy"
    wchunk,        \* per worker: the chunk it is evaluating (0 when none)
    wloads,        \* per worker: executions of load_kernels() in that process
    winits,        \* per worker: executions of the initializer init_spice
    wevals,        \* per worker: epochs it has evaluated
    early,         \* per worker: it evaluated an epoch before init_spice had run
    chunk_res,     \* per chunk: the list the worker returned (<<>> while pending)
    done_order,    \* chunks in the order their workers finished them
    et_vals,       \* array of valid epochs
    impact_params, \* array of valid impact parameters
    ingress,       \* ET column of df_ing
    egress,        \* ET column of df_egr
    df_wide,       \* the wide ingress/egress table
    err_scan,      \* exception that ended the script ("" when none)
    \* ---- covered_occultations.py ----
    pc_cmp,        \* position of the script
    df_obsweb,     \* rows of opsweb_covered.txt
    df_spice,      \* rows of Occultations_spice.txt inside the time scope
    merged,        \* result of merge_asof, unmatched rows dropped
    spice_covered, \* the aligned output table
    coverage_pct,  \* <<numerator, denominator>> of the percentage
    err_cmp        \* exception that ended the script ("" when none)

reqVars == <<pc_req, passes, df_passes, occultations, df_occ, row, covered, err_req>>

poolVars == <<queue, wst, wchunk, wloads, winits, wevals, early, chunk_res, done_order>>

outVars == <<et_vals, impact_params, ingress, egress, df_wide, err_scan>>

scanVars == <<pc_scan, start_method, ephem, poolVars, outVars>>

cmpVars == <<pc_cmp, df_obsweb, df_spice, merged, spice_covered, coverage_pct, err_cmp>>

vars == <<reqVars, scanVars, cmpVars>>

notReq == <<scanVars, cmpVars>>

notScan == <<reqVars, cmpVars>>

notCmp == <<reqVars, scanVars>>

\* ------------------------------------------------------------------------
\* Bounds of the model
\* ------------------------------------------------------------------------
MaxPasses == 2      \* most records in one 'passes' response
MaxOcc == 2         \* most records in one 'occultations' response
ScanLength == 4     \* (end_et - start_et) / STEP of the scan
ChunkSize == 2      \* chunksize of executor.map (500 in the source)
NumProcs == 2       \* n_procs, the pool's max_workers (4 in the source)
MaxSpice == 3       \* most rows of Occultations_spice.txt
MaxObsweb == 2      \* most rows of opsweb_covered.txt

\* ------------------------------------------------------------------------
\* OPSWeb_requester.py
\* ------------------------------------------------------------------------
MarginSeconds == 600                    \* timedelta(minutes=10)

ExcludedStations == {"KLZ", "BLK"}

\* Records a 'passes' response may hold.  owlt is the "MM:SS" string, kept
\* as the pair <<MM, SS>>.
PassIntervals == { <<900, 2400>>, <<2100, 4200>>, <<1200, 3000>> }
PassKinds == { <<"KLZ", "false">>, <<"BLK", "false">>,
               <<"MLG", "true">>,  <<"MLG", "false">> }
Owlts == { <<5, 0>>, <<10, 0>> }

PassRecords ==
    { [groundstation |-> k[1], mspa |-> k[2],
       time_start |-> iv[1], time_end |-> iv[2], owlt |-> o] :
         k \in PassKinds, iv \in PassIntervals, o \in Owlts }

OccRecords == { [time_start |-> 1200, time_end |-> 1800],
                [time_start |-> 2400, time_end |-> 3000] }

SeqsUpTo(S, n) == UNION { [1..k -> S] : k \in 0..n }

\* sort_values(by=['time_end', 'time_start']): stable, ascending.
RowLE(a, b) ==
    \/ a.time_end < b.time_end
    \/ a.time_end = b.time_end /\ a.time_start <= b.time_start

RECURSIVE InsertRow(_, _)
InsertRow(s, r) ==
    IF s = <<>> THEN <<r>>
    ELSE IF RowLE(s[Len(s)], r) THEN Append(s, r)
    ELSE Append(InsertRow(SubSeq(s, 1, Len(s) - 1), r), s[Len(s)])

RECURSIVE sort_values(_)
sort_values(s) ==
    IF s = <<>> THEN <<>>
    ELSE InsertRow(sort_values(SubSeq(s, 1, Len(s) - 1)), s[Len(s)])

\* Mutant: the denylist misses BLK and MSPA passes are kept.
KeepPass_OnlyKLZ(p) == p.groundstation # "KLZ"

\* Lines 68-69: rows that survive both exclusion filters.
KeepPass(p) == p.groundstation \notin ExcludedStations /\ p.mspa # "true"

RECURSIVE ExclusionFilter(_)
ExclusionFilter(df) ==
    IF df = <<>> THEN <<>>
    ELSE IF KeepPass(df[1]) THEN <<df[1]>> \o ExclusionFilter(Tail(df))
    ELSE ExclusionFilter(Tail(df))

\* pd.to_timedelta('00:' + owlt): "00:MM:SS" in seconds.
owlt_delta(o) == 0 * 3600 + o[1] * 60 + o[2]

\* Lines 72-76: add the corrected columns.
OwltCorrect(df) ==
    [k \in 1..Len(df) |->
        [groundstation   |-> df[k].groundstation,
         mspa            |-> df[k].mspa,
         time_start      |-> df[k].time_start,
         time_end        |-> df[k].time_end,
         owlt_delta      |-> owlt_delta(df[k].owlt),
         time_start_corr |-> df[k].time_start - owlt_delta(df[k].owlt),
         time_end_corr   |-> df[k].time_end   - owlt_delta(df[k].owlt)]]

\* Lines 102-105.
mask_ing(df, occ_row) ==
    [k \in 1..Len(df) |->
        /\ df[k].time_start_corr <= occ_row.time_start - MarginSeconds
        /\ df[k].time_end_corr   >= occ_row.time_start]

\* Lines 106-109.
mask_egr(df, occ_row) ==
    [k \in 1..Len(df) |->
        /\ df[k].time_start_corr <= occ_row.time_end
        /\ df[k].time_end_corr   >= occ_row.time_end + MarginSeconds]

any(mask) == \E k \in 1..Len(mask) : mask[k]

\* Mutant: one and the same pass has to contain both margin intervals.
RowCovered_SamePass(df, occ_row) ==
    \E k \in 1..Len(df) : mask_ing(df, occ_row)[k] /\ mask_egr(df, occ_row)[k]

\* Line 112.
RowCovered(df, occ_row) == any(mask_ing(df, occ_row)) /\ any(mask_egr(df, occ_row))

\* Lines 63-76.  An empty response gives a frame without columns, and
\* sort_values(by=...) raises KeyError on it.
RetrievePasses ==
    /\ pc_req = "passes"
    /\ \E resp \in SeqsUpTo(PassRecords, MaxPasses) :
        /\ passes' = resp
        /\ IF resp = <<>>
           THEN /\ pc_req' = "error"
                /\ err_req' = "KeyError"
                /\ UNCHANGED df_passes
           ELSE /\ df_passes' = OwltCorrect(ExclusionFilter(sort_values(resp)))
                /\ pc_req' = "occultations"
                /\ UNCHANGED err_req
    /\ UNCHANGED <<occultations, df_occ, row, covered, notReq>>

\* Lines 81-86.
RetrieveOccultations ==
    /\ pc_req = "occultations"
    /\ \E resp \in SeqsUpTo(OccRecords, MaxOcc) :
        /\ occultations' = resp
        /\ IF resp = <<>>
           THEN /\ pc_req' = "error"
                /\ err_req' = "KeyError"
                /\ UNCHANGED df_occ
           ELSE /\ df_occ' = sort_values(resp)
                /\ pc_req' = "check"
                /\ UNCHANGED err_req
    /\ UNCHANGED <<passes, df_passes, row, covered, notReq>>

\* Lines 92-116: one iteration of the loop over df_occ.
CheckCoverage ==
    /\ pc_req = "check"
    /\ row < Len(df_occ)
    /\ LET occ_row == df_occ[row + 1] IN
         covered' = IF RowCovered(df_passes, occ_row)
                    THEN Append(covered, [ingress |-> occ_row.time_start,
                                          egress  |-> occ_row.time_end])
                    ELSE covered
    /\ row' = row + 1
    /\ UNCHANGED <<pc_req, passes, df_passes, occultations, df_occ, err_req, notReq>>

\* Line 118 and lines 123-128.  pd.DataFrame([]) has no columns, so
\* df_covered[['ingress', 'egress']] raises KeyError when nothing is covered.
FormatOutput ==
    /\ pc_req = "check"
    /\ row = Len(df_occ)
    /\ IF covered = <<>>
       THEN pc_req' = "error" /\ err_req' = "KeyError"
       ELSE pc_req' = "save" /\ UNCHANGED err_req
    /\ UNCHANGED <<passes, df_passes, occultations, df_occ, row, covered, notReq>>

\* Lines 136-146.
SaveFiles ==
    /\ pc_req = "save"
    /\ pc_req' = "done"
    /\ UNCHANGED <<passes, df_passes, occultations, df_occ, row, covered, err_req, notReq>>

\* ------------------------------------------------------------------------
\* Occ_times_spice_parallel.py
\* ------------------------------------------------------------------------
MARS_RADIUS == 3397515                  \* 3397.515 km, in metres

STEP == 1

start_et == 100                         \* spice.str2et(T0_UTC), an arbitrary origin

end_et == start_et + ScanLength * STEP

\* np.arange(start_et, end_et, step), as a 1-based sequence.
et_list == [k \in 1..((end_et - start_et + STEP - 1) \div STEP) |-> start_et + (k - 1) * STEP]

IPValues == { MARS_RADIUS - 1, MARS_RADIUS, MARS_RADIUS + 1 }

Workers == 1..NumProcs

\* executor.map(..., chunksize): the epochs are cut into consecutive chunks.
NumChunks == (Len(et_list) + ChunkSize - 1) \div ChunkSize

ChunkOf(c) ==
    SubSeq(et_list, (c - 1) * ChunkSize + 1,
           IF c * ChunkSize < Len(et_list) THEN c * ChunkSize ELSE Len(et_list))

\* What SPICE answers at one epoch: an impact parameter, or SpiceyError.
Geometry == [raises : {FALSE}, ip : IPValues] \cup [raises : {TRUE}, ip : {0}]

None == <<>>

\* Lines 61-74: the tuple (et, ip) of a sample, or None when SPICE raises
\* SpiceyError.  The tangent point and the SZA ride along with ip and are
\* not kept.
compute_tangent_params(et) ==
    LET k == (et - start_et) \div STEP + 1 IN
    IF ephem[k].raises THEN None ELSE <<et, ephem[k].ip>>

MapChunk(c) == [k \in 1..Len(ChunkOf(c)) |-> compute_tangent_params(ChunkOf(c)[k])]

RECURSIVE Concat(_, _)
Concat(f, order) ==
    IF order = <<>> THEN <<>> ELSE f[Head(order)] \o Concat(f, Tail(order))

\* Mutant: results are gathered in the order the workers finished.
MapResults_AsCompleted == Concat(chunk_res, done_order)

\* Line 92: list(executor.map(...)) yields the chunks in submission order.
MapResults == Concat(chunk_res, [c \in 1..NumChunks |-> c])

\* Line 94: valid = [r for r in results if r].
RECURSIVE Valid(_)
Valid(results) ==
    IF results = <<>> THEN <<>>
    ELSE IF Head(results) # None THEN <<Head(results)>> \o Valid(Tail(results))
    ELSE Valid(Tail(results))

\* arr[:-1] and arr[1:] of a numpy array.
AllButLast(arr) == SubSeq(arr, 1, Len(arr) - 1)
AllButFirst(arr) == SubSeq(arr, 2, Len(arr))

\* Mutant: the ingress test uses < instead of <= for the second sample.
ing_mask_Strict(ip) ==
    [m \in 1..Len(AllButLast(ip)) |->
        AllButLast(ip)[m] > MARS_RADIUS /\ AllButFirst(ip)[m] < MARS_RADIUS]

\* Line 102.
ing_mask(ip) ==
    [m \in 1..Len(AllButLast(ip)) |->
        AllButLast(ip)[m] > MARS_RADIUS /\ AllButFirst(ip)[m] <= MARS_RADIUS]

\* Line 103.
egr_mask(ip) ==
    [m \in 1..Len(AllButLast(ip)) |->
        AllButLast(ip)[m] <= MARS_RADIUS /\ AllButFirst(ip)[m] > MARS_RADIUS]

\* np.where(mask)[0]: the 0-based positions of the True entries, ascending.
RECURSIVE where(_)
where(mask) ==
    IF mask = <<>> THEN <<>>
    ELSE IF mask[Len(mask)] THEN Append(where(AllButLast(mask)), Len(mask) - 1)
    ELSE where(AllButLast(mask))

\* Lines 107-112: for idx in np.where(mask)[0] + 1: out.append(et_vals[idx]).
Events(mask, et) ==
    [j \in 1..Len(where(mask)) |-> et[(where(mask)[j] + 1) + 1]]

\* Line 139: pd.concat([ing, eg], axis=1) joins the two tables on the row
\* number; the shorter one is padded with NaN.
concat_axis1(ing, eg) ==
    [k \in 1..(IF Len(ing) > Len(eg) THEN Len(ing) ELSE Len(eg)) |->
        [Ingress |-> IF k <= Len(ing) THEN ing[k] ELSE "NaN",
         Egress  |-> IF k <= Len(eg)  THEN eg[k]  ELSE "NaN"]]

\* Line 127 into lines 88-92: the epoch list is cut into chunks and submitted.
Submit ==
    /\ pc_scan = "start"
    /\ pc_scan' = "map"
    /\ queue' = [c \in 1..NumChunks |-> c]
    /\ UNCHANGED <<start_method, ephem, wst, wchunk, wloads, winits, wevals, early,
                   chunk_res, done_order, outVars, notScan>>

\* The pool starts a worker process (at most max_workers of them).
StartWorker(w) ==
    /\ pc_scan = "map"
    /\ wst[w] = "none"
    /\ wst' = [wst EXCEPT ![w] = "started"]
    /\ UNCHANGED <<pc_scan, start_method, ephem, queue, wchunk, wloads, winits, wevals,
                   early, chunk_res, done_order, outVars, notScan>>

\* A spawned worker imports the main module before it can unpickle its tasks:
\* the module-level load_kernels() of line 46 runs in the worker (the
\* __main__ block does not).  A forked worker inherits the parent's memory
\* and imports nothing.
ImportMain(w) ==
    /\ wst[w] = "started"
    /\ start_method = "spawn"
    /\ wst' = [wst EXCEPT ![w] = "imported"]
    /\ wloads' = [wloads EXCEPT ![w] = @ + 1]
    /\ UNCHANGED <<pc_scan, start_method, ephem, queue, wchunk, winits, wevals, early,
                   chunk_res, done_order, outVars, notScan>>

\* Lines 57-58: the pool's initializer, run once by the worker before its
\* task loop.
init_spice(w) ==
    /\ \/ wst[w] = "started" /\ start_method = "fork"
       \/ wst[w] = "imported"
    /\ wst' = [wst EXCEPT ![w] = "ready"]
    /\ wloads' = [wloads EXCEPT ![w] = @ + 1]
    /\ winits' = [winits EXCEPT ![w] = @ + 1]
    /\ UNCHANGED <<pc_scan, start_method, ephem, queue, wchunk, wevals, early,
                   chunk_res, done_order, outVars, notScan>>

\* Mutant: a worker pulls tasks as soon as its process exists.
CanTake_NoInitializer(w) == wst[w] \in {"started", "imported", "ready"}

\* The worker's task loop starts after the initializer has returned.
CanTake(w) == wst[w] = "ready"

TakeChunk(w) ==
    /\ CanTake(w)
    /\ queue # <<>>
    /\ wchunk' = [wchunk EXCEPT ![w] = Head(queue)]
    /\ queue' = Tail(queue)
    /\ early' = [early EXCEPT ![w] = @ \/ wst[w] # "ready"]
    /\ wst' = [wst EXCEPT ![w] = "busy"]
    /\ UNCHANGED <<pc_scan, start_method, ephem, wloads, winits, wevals, chunk_res,
                   done_order, outVars, notScan>>

\* The worker evaluates compute_tangent_params on every epoch of its chunk
\* and sends the list back.
FinishChunk(w) ==
    /\ wst[w] = "busy"
    /\ chunk_res' = [chunk_res EXCEPT ![wchunk[w]] = MapChunk(wchunk[w])]
    /\ done_order' = Append(done_order, wchunk[w])
    /\ wevals' = [wevals EXCEPT ![w] = @ + Len(ChunkOf(wchunk[w]))]
    /\ wchunk' = [wchunk EXCEPT ![w] = 0]
    /\ wst' = [wst EXCEPT ![w] = "ready"]
    /\ UNCHANGED <<pc_scan, start_method, ephem, queue, wloads, winits, early, outVars, notScan>>

\* Lines 92-120, once every chunk has come back.  zip(*valid) of an empty
\* list yields nothing, and unpacking it into four names raises ValueError.
Reduce ==
    /\ pc_scan = "map"
    /\ Len(done_order) = NumChunks
    /\ LET valid == Valid(MapResults)
           et    == [k \in 1..Len(valid) |-> valid[k][1]]
           ip    == [k \in 1..Len(valid) |-> valid[k][2]]
       IN IF valid = <<>>
          THEN /\ pc_scan' = "error"
               /\ err_scan' = "ValueError"
               /\ UNCHANGED <<et_vals, impact_params, ingress, egress>>
          ELSE /\ et_vals' = et
               /\ impact_params' = ip
               /\ ingress' = Events(ing_mask(ip), et)
               /\ egress' = Events(egr_mask(ip), et)
               /\ pc_scan' = "returned"
               /\ UNCHANGED err_scan
    /\ UNCHANGED <<start_method, ephem, poolVars, df_wide, notScan>>

\* Lines 133-154.
FormatWide ==
    /\ pc_scan = "returned"
    /\ df_wide' = concat_axis1(ingress, egress)
    /\ pc_scan' = "done"
    /\ UNCHANGED <<start_method, ephem, poolVars, et_vals, impact_params,
                   ingress, egress, err_scan, notScan>>

\* ------------------------------------------------------------------------
\* covered_occultations.py
\* ------------------------------------------------------------------------
\* Times of this script are seconds since 2023-01-01T00:00:00.
ScopeStart == 0                         \* "2023-01-01"
ScopeEnd == 63158400                    \* "2025-01-01", 731 days later

ToleranceSeconds == 60                  \* pd.Timedelta(seconds=60)

SpiceTimes == { -30, 0, 200, 400, ScopeEnd - 1, ScopeEnd }

ObswebTimes == { -60, 61, 140, 260, 339, 461 }

\* The strictly increasing sequences over a set of times, at most n long
\* and at least lo long: both files are written in time order.
RECURSIVE SortedSeq(_)
SortedSeq(S) ==
    IF S = {} THEN <<>>
    ELSE LET m == CHOOSE x \in S : \A y \in S : x <= y
         IN <<m>> \o SortedSeq(S \ {m})

SortedSeqs(S, lo, n) ==
    { SortedSeq(T) : T \in { U \in SUBSET S : Cardinality(U) >= lo /\ Cardinality(U) <= n } }

\* Lines 39-42.
RECURSIVE ScopeFilter(_)
ScopeFilter(df) ==
    IF df = <<>> THEN <<>>
    ELSE IF df[1].Ingress >= ScopeStart /\ df[1].Ingress < ScopeEnd
         THEN <<df[1]>> \o ScopeFilter(Tail(df))
         ELSE ScopeFilter(Tail(df))

\* Mutant: the tolerance bound is exclusive.
WithinTolerance_Exclusive(diff) == diff < ToleranceSeconds

\* merge_asof keeps a candidate unless its distance exceeds the tolerance.
WithinTolerance(diff) == ~(diff > ToleranceSeconds)

\* merge_asof, backward search: the last right row whose key is <= t
\* (0 when there is none or it is out of tolerance).
Backward(t, right) ==
    LET cand == { k \in 1..Len(right) : right[k].ingress <= t } IN
    IF cand = {} THEN 0
    ELSE LET k == CHOOSE x \in cand : \A y \in cand : y <= x
         IN IF WithinTolerance(t - right[k].ingress) THEN k ELSE 0

\* merge_asof, forward search: the first right row whose key is >= t.
Forward(t, right) ==
    LET cand == { k \in 1..Len(right) : right[k].ingress >= t } IN
    IF cand = {} THEN 0
    ELSE LET k == CHOOSE x \in cand : \A y \in cand : x <= y
         IN IF WithinTolerance(right[k].ingress - t) THEN k ELSE 0

\* merge_asof, direction='nearest': the closer of the two candidates, the
\* backward one on a tie.
Nearest(t, right) ==
    LET b == Backward(t, right)
        f == Forward(t, right)
    IN IF b # 0 /\ f # 0
       THEN (IF t - right[b].ingress <= right[f].ingress - t THEN b ELSE f)
       ELSE (IF b # 0 THEN b ELSE f)

\* Lines 47-55: one output row per left row; the right columns are NaT when
\* there is no match (matched = FALSE).
merge_asof(left, right) ==
    [k \in 1..Len(left) |->
        LET r == Nearest(left[k].Ingress, right) IN
        [Ingress |-> left[k].Ingress,
         Egress  |-> left[k].Egress,
         matched |-> r # 0,
         ingress |-> IF r # 0 THEN right[r].ingress ELSE 0,
         egress  |-> IF r # 0 THEN right[r].egress ELSE 0]]

\* Line 58: dropna(subset=['ingress']).
RECURSIVE dropna(_)
dropna(df) ==
    IF df = <<>> THEN <<>>
    ELSE IF df[1].matched THEN <<df[1]>> \o dropna(Tail(df))
    ELSE dropna(Tail(df))

\* Lines 21-42: both files are read and the SPICE rows are cut to the scope.
ReadFiles ==
    /\ pc_cmp = "read"
    /\ \E obs \in SortedSeqs(ObswebTimes, 1, MaxObsweb),
          sp \in SortedSeqs(SpiceTimes, 0, MaxSpice) :
        /\ df_obsweb' = [k \in 1..Len(obs) |-> [ingress |-> obs[k], egress |-> obs[k] + 20]]
        /\ df_spice' = ScopeFilter([k \in 1..Len(sp) |-> [Ingress |-> sp[k], Egress |-> sp[k] + 20]])
    /\ pc_cmp' = "merge"
    /\ UNCHANGED <<merged, spice_covered, coverage_pct, err_cmp, notCmp>>

\* Lines 45-62.
Align ==
    /\ pc_cmp = "merge"
    /\ merged' = dropna(merge_asof(df_spice, df_obsweb))
    /\ spice_covered' =
          [k \in 1..Len(merged') |-> [Ingress |-> merged'[k].Ingress, Egress |-> merged'[k].Egress]]
    /\ pc_cmp' = "stats"
    /\ UNCHANGED <<df_obsweb, df_spice, coverage_pct, err_cmp, notCmp>>

\* Lines 67-73: covered_occ / total_occ * 100 on Python ints; a zero
\* denominator raises ZeroDivisionError.
CoverageStats ==
    /\ pc_cmp = "stats"
    /\ LET total_occ == Len(df_spice)
           covered_occ == Len(spice_covered)
       IN IF total_occ = 0
          THEN pc_cmp' = "error" /\ err_cmp' = "ZeroDivisionError" /\ UNCHANGED coverage_pct
          ELSE /\ coverage_pct' = <<covered_occ * 100, total_occ>>
               /\ pc_cmp' = "plots"
               /\ UNCHANGED err_cmp
    /\ UNCHANGED <<df_obsweb, df_spice, merged, spice_covered, notCmp>>

\* Lines 76-234.
Plots ==
    /\ pc_cmp = "plots"
    /\ pc_cmp' = "done"
    /\ UNCHANGED <<df_obsweb, df_spice, merged, spice_covered, coverage_pct, err_cmp, notCmp>>

\* ------------------------------------------------------------------------
\* Initial states and specifications
\* ------------------------------------------------------------------------
IdleReq ==
    /\ pc_req = "idle"
    /\ passes = <<>>
    /\ df_passes = <<>>
    /\ occultations = <<>>
    /\ df_occ = <<>>
    /\ row = 0
    /\ covered = <<>>
    /\ err_req = ""

StartReq ==
    /\ pc_req = "passes"
    /\ passes = <<>>
    /\ df_passes = <<>>
    /\ occultations = <<>>
    /\ df_occ = <<>>
    /\ row = 0
    /\ covered = <<>>
    /\ err_req = ""

IdleScan ==
    /\ queue = <<>>
    /\ wst = [w \in Workers |-> "none"]
    /\ wchunk = [w \in Workers |-> 0]
    /\ wloads = [w \in Workers |-> 0]
    /\ winits = [w \in Workers |-> 0]
    /\ wevals = [w \in Workers |-> 0]
    /\ early = [w \in Workers |-> FALSE]
    /\ chunk_res = [c \in 1..NumChunks |-> <<>>]
    /\ done_order = <<>>
    /\ et_vals = <<>>
    /\ impact_params = <<>>
    /\ ingress = <<>>
    /\ egress = <<>>
    /\ df_wide = <<>>
    /\ err_scan = ""

IdleCmp ==
    /\ df_obsweb = <<>>
    /\ df_spice = <<>>
    /\ merged = <<>>
    /\ spice_covered = <<>>
    /\ coverage_pct = <<0, 0>>
    /\ err_cmp = ""

InitReq ==
    /\ StartReq
    /\ pc_scan = "idle"
    /\ start_method = "fork"
    /\ ephem = <<>>
    /\ IdleScan
    /\ pc_cmp = "idle"
    /\ IdleCmp

NextReq ==
    \/ RetrievePasses
    \/ RetrieveOccultations
    \/ CheckCoverage
    \/ FormatOutput
    \/ SaveFiles

SpecReq == InitReq /\ [][NextReq]_vars

InitScan ==
    /\ pc_scan = "start"
    /\ start_method \in {"fork", "spawn"}
    /\ ephem \in [1..Len(et_list) -> Geometry]
    /\ IdleScan
    /\ IdleReq
    /\ pc_cmp = "idle"
    /\ IdleCmp

NextScan ==
    \/ Submit
    \/ \E w \in Workers : StartWorker(w)
    \/ \E w \in Workers : ImportMain(w)
    \/ \E w \in Workers : init_spice(w)
    \/ \E w \in Workers : TakeChunk(w)
    \/ \E w \in Workers : FinishChunk(w)
    \/ Reduce
    \/ FormatWide

SpecScan == InitScan /\ [][NextScan]_vars

InitCmp ==
    /\ pc_cmp = "read"
    /\ IdleCmp
    /\ IdleReq
    /\ pc_scan = "idle"
    /\ start_method = "fork"
    /\ ephem = <<>>
    /\ IdleScan

NextCmp ==
    \/ ReadFiles
    \/ Align
    \/ CoverageStats
    \/ Plots

SpecCmp == InitCmp /\ [][NextCmp]_vars

\* ---- properties of OPSWeb_requester.py ----

\* The occultation rows the coverage loop has already decided.
Decided == { df_occ[k] : k \in 1..row }

Reported(w) ==
    \E j \in 1..Len(covered) :
        covered[j] = [ingress |-> w.time_start, egress |-> w.time_end]

RawPasses == { passes[k] : k \in 1..Len(passes) }

Denied(p) == p.groundstation \in {"KLZ", "BLK"} \/ p.mspa = "true"

LightTime(p) == 60 * p.owlt[1] + p.owlt[2]

ContainsIngress(p, w) ==
    /\ p.time_start - LightTime(p) <= w.time_start - 600
    /\ p.time_end - LightTime(p) >= w.time_start

ContainsEgress(p, w) ==
    /\ p.time_start - LightTime(p) <= w.time_end
    /\ p.time_end - LightTime(p) >= w.time_end + 600

\* C1: a decided window is reported covered iff some candidate pass has
\* corrected_start <= ingress - 10 min and corrected_end >= ingress, and some
\* (possibly different) candidate pass has corrected_start <= egress and
\* corrected_end >= egress + 10 min; corrected = raw minus the pass's OWLT.
C1_CoverageIff ==
    \A w \in Decided :
        Reported(w) <=>
            /\ \E p \in RawPasses : ~Denied(p) /\ ContainsIngress(p, w)
            /\ \E q \in RawPasses : ~Denied(q) /\ ContainsEgress(q, w)

\* C1 witness: a window reported covered through two different passes, none
\* of which contains both margin intervals.
C1_Witness ==
    \E w \in Decided :
        /\ Reported(w)
        /\ ~\E p \in RawPasses : ContainsIngress(p, w) /\ ContainsEgress(p, w)

\* C2: denylisted (KLZ, BLK) and MSPA passes never enter the candidate table,
\* so a decided window whose ingress-side or egress-side interval is contained
\* only by such passes is not reported, while a window for which some
\* non-excluded pass contains each side is reported.
C2_ExcludedNeverUsed ==
    /\ \A k \in 1..Len(df_passes) :
          /\ df_passes[k].groundstation \notin {"KLZ", "BLK"}
          /\ df_passes[k].mspa # "true"
    /\ \A w \in Decided :
          LET geoIng == { p \in RawPasses : ContainsIngress(p, w) }
              geoEgr == { p \in RawPasses : ContainsEgress(p, w) }
          IN  /\ ((\A p \in geoIng : Denied(p)) \/ (\A p \in geoEgr : Denied(p)))
                    => ~Reported(w)
              /\ ((\E p \in geoIng : ~Denied(p)) /\ (\E p \in geoEgr : ~Denied(p)))
                    => Reported(w)

\* C2 witness: denylisted and MSPA passes contain both margin intervals of a
\* decided window, a non-excluded pass exists but contains neither, and the
\* window is not reported.
C2_Witness ==
    \E w \in Decided :
        /\ \E p \in RawPasses :
              p.groundstation \in {"KLZ", "BLK"} /\ ContainsIngress(p, w) /\ ContainsEgress(p, w)
        /\ \E p \in RawPasses : ~Denied(p)
        /\ ~Reported(w)

\* C8: when no pass qualifies (empty response, everything excluded, or no
\* containing pass) nothing is reported covered and the run does not end in
\* an error.
C8_NoQualifyingPassNoError ==
    LET windows == { occultations[k] : k \in 1..Len(occultations) }
        qualifies(w) ==
            /\ \E p \in RawPasses : ~Denied(p) /\ ContainsIngress(p, w)
            /\ \E q \in RawPasses : ~Denied(q) /\ ContainsEgress(q, w)
    IN  (pc_req # "passes" /\ \A w \in windows : ~qualifies(w))
            => (covered = <<>> /\ pc_req # "error")

\* ---- properties of Occ_times_spice_parallel.py ----

Reduced == pc_scan \in {"returned", "done"}

Range(seq) == { seq[k] : k \in 1..Len(seq) }

Reverse(seq) == [k \in 1..Len(seq) |-> seq[Len(seq) + 1 - k]]

\* Positions i (1-based) of the series whose step to i+1 enters / leaves the disc.
Entering == { i \in 1..(Len(impact_params) - 1) :
                impact_params[i] > 3397515 /\ impact_params[i + 1] <= 3397515 }

Leaving == { i \in 1..(Len(impact_params) - 1) :
                impact_params[i] <= 3397515 /\ impact_params[i + 1] > 3397515 }

\* C3: for the series handed to the reduction, an ingress is emitted at
\* sample i+1 exactly for the i with sample i > R and sample i+1 <= R, an
\* egress at sample i+1 exactly for the i with sample i <= R and sample
\* i+1 > R, nothing else is emitted, and the ingress detections of the
\* series are the egress detections of the reversed series (mirrored).
C3_CrossingsExact ==
    Reduced =>
        /\ Range(ingress) = { et_vals[i + 1] : i \in Entering }
        /\ Len(ingress) = Cardinality(Entering)
        /\ Range(egress) = { et_vals[i + 1] : i \in Leaving }
        /\ Len(egress) = Cardinality(Leaving)
        /\ LET n == Len(impact_params)
               revEgr == where(egr_mask(Reverse(impact_params)))
               revIng == where(ing_mask(Reverse(impact_params)))
           IN /\ { i + 1 : i \in Entering } = { n - (revEgr[j] + 1) + 1 : j \in 1..Len(revEgr) }
              /\ { i + 1 : i \in Leaving }  = { n - (revIng[j] + 1) + 1 : j \in 1..Len(revIng) }

\* C3 witness: a reduced series with a sample exactly at the radius that
\* yields both an ingress and an egress.
C3_Witness ==
    /\ Reduced
    /\ Len(ingress) >= 1
    /\ Len(egress) >= 1
    /\ \E i \in Entering : impact_params[i + 1] = 3397515

\* C4 (as stated): a worker that has evaluated epochs has run the ephemeris
\* initialization (kclear + furnsh) exactly once, and did so before its
\* first epoch.
C4_InitExactlyOnce ==
    \A w \in Workers :
        /\ ~early[w]
        /\ (wevals[w] > 0 \/ wst[w] = "busy") => wloads[w] = 1

\* C4 (amended): a worker that evaluates epochs has run the pool initializer
\* init_spice exactly once and before its first epoch; counting the
\* module-level load_kernels() a spawned worker runs at import, the
\* initialization has run once under fork and twice under spawn.
C4_InitializerOnceBeforeEpochs ==
    \A w \in Workers :
        /\ ~early[w]
        /\ winits[w] <= 1
        /\ wloads[w] = winits[w] + (IF wst[w] \notin {"none", "started"} /\ start_method = "spawn"
                                    THEN 1 ELSE 0)
        /\ (wevals[w] > 0 \/ wst[w] = "busy") =>
              /\ winits[w] = 1
              /\ wloads[w] = (IF start_method = "spawn" THEN 2 ELSE 1)

\* C4 witness: under spawn two workers have each evaluated epochs, each after
\* its import-time load and its initializer.
C4_Witness ==
    /\ start_method = "spawn"
    /\ \A w \in {1, 2} : wevals[w] > 0 /\ winits[w] = 1 /\ wloads[w] = 2

StrictlyIncreasing(seq) == \A k \in 1..(Len(seq) - 1) : seq[k] < seq[k + 1]

\* C5: whatever the order in which the workers finish their chunks, the
\* reduction runs over samples in strictly increasing epoch order and the
\* ingress list and the egress list are each in increasing epoch order.
C5_EpochOrder ==
    Reduced =>
        /\ StrictlyIncreasing(et_vals)
        /\ StrictlyIncreasing(ingress)
        /\ StrictlyIncreasing(egress)

\* C5 witness: the second chunk finished before the first one, every epoch
\* was valid, and two ingresses were found.
C5_Witness ==
    /\ Reduced
    /\ done_order[1] = 2
    /\ Len(et_vals) = Len(et_list)
    /\ Len(ingress) >= 2

\* C9: whichever epochs fail, exactly those samples are dropped and the
\* scan completes with the crossings of the remaining ones; it never ends
\* in an error, not even when every epoch fails.
C9_FailuresNeverFatal ==
    /\ pc_scan # "error"
    /\ Reduced => Range(et_vals) = { et_list[k] : k \in { j \in 1..Len(et_list) : ~ephem[j].raises } }

\* C10: every row of the wide table that has both sides pairs an ingress
\* with the egress of the same occultation: the egress is later than the
\* ingress of its row and earlier than the ingress of the next row.
C10_RowsPairSameOccultation ==
    pc_scan = "done" =>
        \A k \in 1..Len(df_wide) :
            (k <= Len(ingress) /\ k <= Len(egress)) =>
                /\ df_wide[k].Ingress < df_wide[k].Egress
                /\ (k + 1 <= Len(ingress)) => df_wide[k].Egress < df_wide[k + 1].Ingress

\* ---- properties of covered_occultations.py ----

Abs(x) == IF x < 0 THEN -x ELSE x

Aligned == pc_cmp \in {"stats", "plots", "done", "error"}

Kept(r) == \E k \in 1..Len(spice_covered) : spice_covered[k].Ingress = r.Ingress

\* C6: an in-scope derived event is kept in the aligned output iff the
\* smallest absolute difference between its ingress time and a reported
\* ingress time is <= 60 s; a difference of exactly 60 s matches, a larger
\* one drops the event.
C6_KeptIffWithinTolerance ==
    Aligned =>
        \A k \in 1..Len(df_spice) :
            Kept(df_spice[k]) <=>
                \E j \in 1..Len(df_obsweb) :
                    /\ \A i \in 1..Len(df_obsweb) :
                          Abs(df_spice[k].Ingress - df_obsweb[j].ingress)
                            <= Abs(df_spice[k].Ingress - df_obsweb[i].ingress)
                    /\ Abs(df_spice[k].Ingress - df_obsweb[j].ingress) <= 60

\* C6 witness: one derived event lies exactly 60 s from its nearest reported
\* ingress and is kept, another lies 61 s away and is dropped.
C6_Witness ==
    /\ Aligned
    /\ \E k \in 1..Len(df_spice) :
          /\ Kept(df_spice[k])
          /\ \A j \in 1..Len(df_obsweb) : Abs(df_spice[k].Ingress - df_obsweb[j].ingress) >= 60
    /\ \E k \in 1..Len(df_spice) :
          /\ ~Kept(df_spice[k])
          /\ \E j \in 1..Len(df_obsweb) : Abs(df_spice[k].Ingress - df_obsweb[j].ingress) = 61

\* C7: with an empty derived-event scope the coverage fraction is computed
\* without raising.
C7_EmptyScopeDoesNotRaise ==
    (pc_cmp # "read" /\ pc_cmp # "idle" /\ df_spice = <<>>) => pc_cmp # "error"

====
